---- MODULE Spec2Model ----
(***************************************************************************)
(* Model of the SoundCloud provider module: stream selection and ranking   *)
(* in ModuleInterface.get_track_info, the preset bitrate extractors, and   *)
(* the materialisation of the selected stream in get_track_download       *)
(* (Spec, SpecQuality); and of the API client: the requests each operation *)
(* sends and what a failing answer does to it (SpecApi), the batches of    *)
(* get_tracks_from_tracklist (SpecTracklist) and the loop of               *)
(* _get_collection_paginated (SpecPaginated).                              *)
(*                                                                         *)
(* Python strings that the code parses (presets, URLs, Content-Type        *)
(* headers) are sequences of one-character strings, so that substring      *)
(* tests, split, regular-expression search, upper/lower and int() are      *)
(* computed as the code computes them.  Python's None is NoneVal.          *)
(***************************************************************************)
EXTENDS Integers, Sequences, FiniteSets, TLC

VARIABLES pc, track_data, response, info, available, dl, files, ffmpeg_runs, probe,
          page, batch, op

vars == <<pc, track_data, response, info, available, dl, files, ffmpeg_runs, probe,
          page, batch, op>>

(***************************************************************************)
(* Bounds of the model.                                                    *)
(***************************************************************************)
MaxTranscodings == 2

MaxPresetParts == 1

(***************************************************************************)
(* Strings.                                                                *)
(***************************************************************************)
NoneVal == <<"None">>

IsStr(v) == v # NoneVal

Truthy(v) == v # NoneVal /\ v # <<>>

Digits == {"0", "1", "2", "3", "4", "5", "6", "7", "8", "9"}

DigitValue == "0" :> 0 @@ "1" :> 1 @@ "2" :> 2 @@ "3" :> 3 @@ "4" :> 4 @@
              "5" :> 5 @@ "6" :> 6 @@ "7" :> 7 @@ "8" :> 8 @@ "9" :> 9

LowerLetters == <<"a","b","c","d","e","f","g","h","i","j","k","l","m",
                  "n","o","p","q","r","s","t","u","v","w","x","y","z">>

UpperLetters == <<"A","B","C","D","E","F","G","H","I","J","K","L","M",
                  "N","O","P","Q","R","S","T","U","V","W","X","Y","Z">>

ToUpper ==
    [c \in {LowerLetters[k] : k \in 1..26} |->
        UpperLetters[CHOOSE k \in 1..26 : LowerLetters[k] = c]]

ToLower ==
    [c \in {UpperLetters[k] : k \in 1..26} |->
        LowerLetters[CHOOSE k \in 1..26 : UpperLetters[k] = c]]

UpperChar(c) == IF c \in DOMAIN ToUpper THEN ToUpper[c] ELSE c

LowerChar(c) == IF c \in DOMAIN ToLower THEN ToLower[c] ELSE c

\* str.upper()
Upper(s) == [k \in 1..Len(s) |-> UpperChar(s[k])]

\* str.lower()
Lower(s) == [k \in 1..Len(s) |-> LowerChar(s[k])]

\* str.startswith(p)
StartsWith(s, p) == Len(s) >= Len(p) /\ SubSeq(s, 1, Len(p)) = p

\* index of the leftmost occurrence of sub in s, 0 when there is none
Find(s, sub) ==
    LET hits == {k \in 1..(Len(s) - Len(sub) + 1) :
                    \A m \in 1..Len(sub) : s[k + m - 1] = sub[m]}
    IN  IF hits = {} THEN 0 ELSE CHOOSE k \in hits : \A m \in hits : k <= m

\* sub in s
Contains(s, sub) == Find(s, sub) # 0

\* str.isdigit()
IsDigit(s) == s # <<>> /\ \A k \in 1..Len(s) : s[k] \in Digits

\* int(s) of a digit string
RECURSIVE ToInt(_)
ToInt(s) ==
    IF s = <<>> THEN 0
    ELSE ToInt(SubSeq(s, 1, Len(s) - 1)) * 10 + DigitValue[s[Len(s)]]

\* str.split(sep) for a one-character separator
RECURSIVE Split(_, _)
Split(s, sep) ==
    LET k == Find(s, <<sep>>)
    IN  IF k = 0 THEN <<s>>
        ELSE <<SubSeq(s, 1, k - 1)>> \o Split(SubSeq(s, k + 1, Len(s)), sep)

\* str.replace(old, new)
RECURSIVE Replace(_, _, _)
Replace(s, old, new) ==
    LET k == Find(s, old)
    IN  IF k = 0 THEN s
        ELSE SubSeq(s, 1, k - 1) \o new
             \o Replace(SubSeq(s, k + Len(old), Len(s)), old, new)

\* last index of the run of digits that starts at k (k - 1 when s[k] is no digit)
DigitRunEnd(s, k) ==
    LET ends == {e \in k..Len(s) : \A m \in k..e : s[m] \in Digits}
    IN  IF ends = {} THEN k - 1 ELSE CHOOSE e \in ends : \A m \in ends : m <= e

\* the pattern (\d+)k matches at position k
MatchDigitsK(s, k) ==
    LET e == DigitRunEnd(s, k)
    IN  e >= k /\ e + 1 <= Len(s) /\ s[e + 1] = "k"

\* group(1) of re.search(prefix + r'(\d+)k', s); <<>> when there is no match
SearchDigitsK(s, prefix) ==
    LET n == Len(prefix)
        hits == {k \in 1..Len(s) :
                    /\ k + n <= Len(s)
                    /\ SubSeq(s, k, k + n - 1) = prefix
                    /\ MatchDigitsK(s, k + n)}
    IN  IF hits = {} THEN <<>>
        ELSE LET k == CHOOSE h \in hits : \A m \in hits : h <= m
             IN  SubSeq(s, k + n, DigitRunEnd(s, k + n))

(***************************************************************************)
(* String literals of the source.                                          *)
(***************************************************************************)
S_aac_ == <<"a","a","c","_">>
S_opus == <<"o","p","u","s">>
S_OPUS == <<"O","P","U","S">>
S_abr_hq == <<"a","b","r","_","h","q">>
S_abr_sq == <<"a","b","r","_","s","q">>
S_slash_hls == <<"/","h","l","s">>
S_dot_m3u8 == <<".","m","3","u","8">>
S_ctr_encrypted_hls == <<"c","t","r","-","e","n","c","r","y","p","t","e","d","-","h","l","s">>
S_cbc_encrypted_hls == <<"c","b","c","-","e","n","c","r","y","p","t","e","d","-","h","l","s">>
S_http == <<"h","t","t","p">>
S_api_base == <<"h","t","t","p","s",":","/","/","a","p","i","-","v","2",".",
                "s","o","u","n","d","c","l","o","u","d",".","c","o","m","/">>
S_mpeg == <<"m","p","e","g">>
S_mp3 == <<"m","p","3">>
S_ogg == <<"o","g","g">>
S_vorbis == <<"v","o","r","b","i","s">>

\* CodecEnum.__members__ of the host framework, by member name
CodecEnumMembers ==
    [FLAC |-> <<"F","L","A","C">>, ALAC |-> <<"A","L","A","C">>,
     WAV |-> <<"W","A","V">>, MQA |-> <<"M","Q","A">>,
     OPUS |-> <<"O","P","U","S">>, VORBIS |-> <<"V","O","R","B","I","S">>,
     MP3 |-> <<"M","P","3">>, AAC |-> <<"A","A","C">>,
     HEAAC |-> <<"H","E","A","A","C">>, MHA1 |-> <<"M","H","A","1">>,
     MHM1 |-> <<"M","H","M","1">>, EAC3 |-> <<"E","A","C","3">>,
     AC4 |-> <<"A","C","4">>, AC3 |-> <<"A","C","3">>,
     NONE |-> <<"N","O","N","E">>]

\* name in CodecEnum.__members__
IsCodecName(name) == \E c \in DOMAIN CodecEnumMembers : CodecEnumMembers[c] = name

\* CodecEnum[name]
CodecEnumOf(name) == CHOOSE c \in DOMAIN CodecEnumMembers : CodecEnumMembers[c] = name

(***************************************************************************)
(* The bitrate / quality extractors.                                       *)
(***************************************************************************)
AacFallback == 64

parse_aac_bitrate_from_preset(preset_string) ==
    IF ~IsStr(preset_string) THEN 0
    ELSE LET g == SearchDigitsK(preset_string, S_aac_)
         IN  IF g # <<>> THEN ToInt(g)
             ELSE IF StartsWith(preset_string, S_aac_) THEN AacFallback
             ELSE 0

OpusHq == 128

OpusSq == 96

OpusLevelStep == 12

OpusLevelBase == 32

parse_progressive_bitrate_from_preset(preset_string, stream_codec_name) ==
    IF ~IsStr(preset_string) THEN 0
    ELSE IF stream_codec_name = S_OPUS /\ Contains(preset_string, S_abr_hq) THEN OpusHq
    ELSE IF stream_codec_name = S_OPUS /\ Contains(preset_string, S_abr_sq) THEN OpusSq
    ELSE LET g == SearchDigitsK(preset_string, <<>>)
             parts == Split(preset_string, "_")
         IN  IF g # <<>> THEN ToInt(g)
             ELSE IF Len(parts) > 1 /\ IsDigit(parts[2]) THEN ToInt(parts[2])
             ELSE IF /\ stream_codec_name = S_OPUS
                     /\ Len(parts) > 1
                     /\ parts[1] = S_opus
                     /\ IsDigit(parts[2])
                  THEN ToInt(parts[2]) * OpusLevelStep + OpusLevelBase
             ELSE 0

(***************************************************************************)
(* get_track_info: classification and scoring of one transcoding.          *)
(***************************************************************************)
\* preset_parts[0].upper()
StreamCodecName(preset_string) == Upper(Split(preset_string, "_")[1])

IsHlsByUrl(url) ==
    /\ IsStr(url)
    /\ LET lower == Lower(url)
       IN  \/ Contains(lower, S_slash_hls)
           \/ Contains(lower, S_dot_m3u8)
           \/ Contains(lower, S_ctr_encrypted_hls)
           \/ Contains(lower, S_cbc_encrypted_hls)

IsHls(protocol, url) == protocol = "hls" \/ IsHlsByUrl(url)

IsEncryptedHls(is_hls, url) ==
    /\ is_hls
    /\ IsStr(url)
    /\ LET lower == Lower(url)
       IN  \/ Contains(lower, S_ctr_encrypted_hls)
           \/ Contains(lower, S_cbc_encrypted_hls)

EncryptedPenalty == -100

\* variant: the score without the penalty of an encrypted stream
QualityScoreNoPenalty(preset_string, stream_codec_name, is_hls, is_encrypted_hls) ==
    IF is_hls /\ CodecEnumOf(stream_codec_name) = "AAC"
    THEN parse_aac_bitrate_from_preset(preset_string)
    ELSE parse_progressive_bitrate_from_preset(preset_string, stream_codec_name)

\* variant: the AAC parser for every AAC stream, whatever its protocol
QualityScoreOneParser(preset_string, stream_codec_name, is_hls, is_encrypted_hls) ==
    IF is_encrypted_hls THEN EncryptedPenalty
    ELSE IF CodecEnumOf(stream_codec_name) = "AAC"
         THEN parse_aac_bitrate_from_preset(preset_string)
         ELSE parse_progressive_bitrate_from_preset(preset_string, stream_codec_name)

\* quality_score of a transcoding of a known codec
QualityScore(preset_string, stream_codec_name, is_hls, is_encrypted_hls) ==
    IF is_encrypted_hls THEN EncryptedPenalty
    ELSE IF is_hls
         THEN IF CodecEnumOf(stream_codec_name) = "AAC"
              THEN parse_aac_bitrate_from_preset(preset_string)
              ELSE parse_progressive_bitrate_from_preset(preset_string, stream_codec_name)
         ELSE parse_progressive_bitrate_from_preset(preset_string, stream_codec_name)

PrefHlsAac == 5

PrefHlsOpus == 4

PrefProgressiveOpus == 3

PrefProgressiveAac == 2

PrefProgressiveMp3 == 1

PrefHlsMp3 == 0

PrefUnlisted == 0

\* codec_preference.get((codec, is_hls), 0)
CodecPreference(codec, is_hls) ==
    CASE codec = "AAC" /\ is_hls -> PrefHlsAac
      [] codec = "OPUS" /\ is_hls -> PrefHlsOpus
      [] codec = "OPUS" /\ ~is_hls -> PrefProgressiveOpus
      [] codec = "AAC" /\ ~is_hls -> PrefProgressiveAac
      [] codec = "MP3" /\ ~is_hls -> PrefProgressiveMp3
      [] codec = "MP3" /\ is_hls -> PrefHlsMp3
      [] OTHER -> PrefUnlisted

\* the dict built for a transcoding i of a known codec
ScoredStream(i) ==
    LET stream_codec_name == StreamCodecName(i.preset)
        current_codec_enum == CodecEnumOf(stream_codec_name)
        is_hls == IsHls(i.protocol, i.url)
        is_encrypted_hls == IsEncryptedHls(is_hls, i.url)
    IN  [url |-> i.url,
         codec |-> current_codec_enum,
         is_hls |-> is_hls,
         is_encrypted |-> is_encrypted_hls,
         quality |-> QualityScore(i.preset, stream_codec_name, is_hls, is_encrypted_hls),
         preference |-> CodecPreference(current_codec_enum, is_hls),
         preset |-> i.preset]

\* the condition under which the dict is appended to available_streams
Retained(stream) == Truthy(stream.url) /\ stream.quality >= 0

\* the loop over track_data['media']['transcodings']
RECURSIVE AvailableStreams(_)
AvailableStreams(transcodings) ==
    IF transcodings = <<>> THEN <<>>
    ELSE LET i == Head(transcodings)
         IN  (IF IsCodecName(StreamCodecName(i.preset))
              THEN LET stream == ScoredStream(i)
                   IN  IF Retained(stream) THEN <<stream>> ELSE <<>>
              ELSE <<>>)
             \o AvailableStreams(Tail(transcodings))

(***************************************************************************)
(* available_streams.sort(key=(quality, preference), reverse=True): a      *)
(* stable sort, equal keys keep their original order.                      *)
(***************************************************************************)
\* variant: the sort key without the preference score
KeyGreaterQualityOnly(a, b) == a.quality > b.quality

\* the key of a is greater than the key of b
KeyGreater(a, b) ==
    \/ a.quality > b.quality
    \/ a.quality = b.quality /\ a.preference > b.preference

\* x inserted behind every element whose key is not smaller than its own
InsertStable(sorted, x) ==
    LET before == {k \in 0..Len(sorted) : \A m \in 1..k : ~KeyGreater(x, sorted[m])}
        n == CHOOSE k \in before : \A m \in before : m <= k
    IN  SubSeq(sorted, 1, n) \o <<x>> \o SubSeq(sorted, n + 1, Len(sorted))

RECURSIVE SortedStreamsFrom(_, _)
SortedStreamsFrom(sorted, rest) ==
    IF rest = <<>> THEN sorted
    ELSE SortedStreamsFrom(InsertStable(sorted, Head(rest)), Tail(rest))

Reversed(s) == [k \in 1..Len(s) |-> s[Len(s) + 1 - k]]

\* variant: an ascending sort, reversed afterwards
SortedStreamsAscendingReversed(streams) ==
    Reversed(SortedStreamsFrom(<<>>, Reversed(streams)))

SortedStreams(streams) == SortedStreamsFrom(<<>>, streams)

(***************************************************************************)
(* get_track_info: the result.                                             *)
(***************************************************************************)
NoError == <<"None", <<>>>>

ErrUnknownCodec(content_type) ==
    <<"Unknown codec from direct download Content-Type: ", content_type>>

ErrDrm ==
    <<"Track is available as a DRM-protected HLS stream, which can be downloaded, but aren't playable without decryption key. Skipping.", <<>>>>

ErrZeroQuality(preset) ==
    <<"Best stream found (preset: {}) has zero or negative quality, or codec could not be parsed.", preset>>

ErrNoneUsable == <<"No stream transcodings found or none were usable.", <<>>>>

ErrNoTranscodings == <<"No stream transcodings available for this track.", <<>>>>

ErrNotAvailable == <<"Track is not available for download or streaming.", <<>>>>

\* file_url, download_url, final_codec, error, final_is_hls_stream as initialised
InfoDefaults ==
    [status |-> "returned", track_url |-> NoneVal, download_url |-> NoneVal,
     codec |-> "AAC", is_hls |-> FALSE, error |-> NoError, raised |-> ""]

InfoNone == [InfoDefaults EXCEPT !.status = "none"]

\* the error set after best_stream was chosen
\* variant: the error cleared whatever the best stream is
BestStreamErrorAlwaysClear(best) == NoError

BestStreamError(best) ==
    IF best.is_encrypted THEN ErrDrm
    ELSE IF best.quality > 0 THEN NoError
    ELSE ErrZeroQuality(best.preset)

\* variant: no separate case for an empty transcoding list
StreamableBranchNoChecks(td) ==
    LET sorted == SortedStreams(AvailableStreams(td.transcodings))
    IN  IF sorted # <<>>
        THEN [InfoDefaults EXCEPT !.track_url = sorted[1].url,
                                  !.codec = sorted[1].codec,
                                  !.is_hls = sorted[1].is_hls,
                                  !.error = BestStreamError(sorted[1])]
        ELSE [InfoDefaults EXCEPT !.error = ErrNoneUsable]

\* the branch under "elif track_data['streamable']"
StreamableBranch(td) ==
    IF td.transcodings # <<>>
    THEN LET sorted == SortedStreams(AvailableStreams(td.transcodings))
         IN  IF sorted # <<>>
             THEN [InfoDefaults EXCEPT !.track_url = sorted[1].url,
                                       !.codec = sorted[1].codec,
                                       !.is_hls = sorted[1].is_hls,
                                       !.error = BestStreamError(sorted[1])]
             ELSE [InfoDefaults EXCEPT !.error = ErrNoneUsable]
    ELSE [InfoDefaults EXCEPT !.error = ErrNoTranscodings]

(***************************************************************************)
(* SoundCloudWebAPI._get: the statuses that do not raise.                  *)
(***************************************************************************)
OkStatuses == {200, 201, 202}

ErrRestricted ==
    "This track is not available (e.g. restricted in your country or disabled for API access)."

\* the message _get raises with for a status outside OkStatuses
GetError(status) == IF status = 403 THEN ErrRestricted ELSE "{status}: {text}"

InfoRaised(msg) == [InfoDefaults EXCEPT !.status = "raised", !.raised = msg]

\* the branch under "if downloadable and has_downloads_left"; resp is the
\* answer of tracks/<id>/download and of the HEAD request on its redirectUri
DirectBranch(resp) ==
    IF resp.dl_status \notin OkStatuses THEN InfoRaised(GetError(resp.dl_status))
    ELSE LET parts == Split(resp.content_type, "/")
             codec_str_part == parts[Len(parts)]
             codec_str == Upper(Replace(Replace(codec_str_part, S_mpeg, S_mp3),
                                        S_ogg, S_vorbis))
         IN  [InfoDefaults EXCEPT
                !.download_url = resp.redirectUri,
                !.track_url = resp.redirectUri,
                !.codec = IF IsCodecName(codec_str) THEN CodecEnumOf(codec_str) ELSE "AAC",
                !.error = IF IsCodecName(codec_str) THEN NoError
                          ELSE ErrUnknownCodec(resp.content_type)]

\* variant: the transcodings of a streamable track before the direct asset
TrackInfoStreamableFirst(td, resp) ==
    IF td.streamable THEN StreamableBranch(td)
    ELSE IF td.downloadable /\ td.has_downloads_left THEN DirectBranch(resp)
    ELSE [InfoDefaults EXCEPT !.error = ErrNotAvailable]

\* get_track_info once track_data is at hand
TrackInfo(td, resp) ==
    IF td.downloadable /\ td.has_downloads_left THEN DirectBranch(resp)
    ELSE IF td.streamable THEN StreamableBranch(td)
    ELSE [InfoDefaults EXCEPT !.error = ErrNotAvailable]

(***************************************************************************)
(* Inputs.                                                                 *)
(***************************************************************************)
U_prog == S_api_base \o <<"m","/","1","/","p","r","o","g","r","e","s","s","i","v","e">>
U_prog2 == S_api_base \o <<"m","/","2","/","p","r","o","g","r","e","s","s","i","v","e">>
U_hls == S_api_base \o <<"m","/","1">> \o S_slash_hls
U_hls2 == S_api_base \o <<"m","/","2">> \o S_slash_hls
U_ctr == S_api_base \o <<"m","/","1","/">> \o S_ctr_encrypted_hls
U_cbc == S_api_base \o <<"m","/","2","/">> \o S_cbc_encrypted_hls
U_m3u8 == <<"h","t","t","p","s",":","/","/","c","d","n","/","a">> \o S_dot_m3u8
R_file == <<"h","t","t","p","s",":","/","/","c","f","/","a",".","m","p","3">>
R_hls == <<"h","t","t","p","s",":","/","/","c","f">> \o S_slash_hls \o <<"/","a">>
M_ok == <<"h","t","t","p","s",":","/","/","c","f","/","p","l">> \o S_dot_m3u8
M_bad == <<"f","t","p",":","/","/","c","f","/","p","l">>
CT_mpeg == <<"a","u","d","i","o","/","m","p","e","g">>
CT_ogg == <<"a","u","d","i","o","/","o","g","g">>
CT_xwav == <<"a","u","d","i","o","/","x","-","w","a","v">>
P_aac_160k == <<"a","a","c","_","1","6","0","k">>
P_aac_256k == <<"a","a","c","_","2","5","6","k">>
P_opus_0_0 == <<"o","p","u","s","_","0","_","0">>
P_mp3_128k == <<"m","p","3","_","1","2","8","k">>
P_mp3_0k == <<"m","p","3","_","0","k">>
P_flac_160k == <<"f","l","a","c","_","1","6","0","k">>
P_xyz_320k == <<"x","y","z","_","3","2","0","k">>

Transcoding(url, protocol, preset) == [url |-> url, protocol |-> protocol, preset |-> preset]

\* the entries a media.transcodings list is drawn from
Transcodings ==
    {Transcoding(U_hls, "hls", P_aac_160k),
     Transcoding(U_hls2, "hls", P_aac_160k),
     Transcoding(U_prog, "progressive", P_aac_160k),
     Transcoding(U_hls2, "hls", P_flac_160k),
     Transcoding(U_prog, "progressive", P_opus_0_0),
     Transcoding(U_m3u8, "progressive", P_mp3_0k),
     Transcoding(U_ctr, "hls", P_aac_256k),
     Transcoding(U_cbc, "hls", P_mp3_128k),
     Transcoding(<<>>, "hls", P_aac_256k),
     Transcoding(U_prog2, "progressive", P_xyz_320k)}

RECURSIVE SeqsUpTo(_, _)
SeqsUpTo(S, n) ==
    IF n = 0 THEN {<<>>}
    ELSE LET shorter == SeqsUpTo(S, n - 1)
         IN  shorter \cup {Append(q, x) : q \in shorter, x \in S}

TranscodingLists == SeqsUpTo(Transcodings, MaxTranscodings)

Tracks ==
    [downloadable : BOOLEAN, has_downloads_left : BOOLEAN, streamable : BOOLEAN,
     transcodings : TranscodingLists]

NoTrack ==
    [downloadable |-> FALSE, has_downloads_left |-> FALSE, streamable |-> FALSE,
     transcodings |-> <<>>]

Response(dl_status, redirectUri, content_type) ==
    [dl_status |-> dl_status, redirectUri |-> redirectUri, content_type |-> content_type]

NoResponse == Response(0, NoneVal, <<>>)

\* answers of the download endpoint and of the HEAD request
Responses ==
    {Response(200, R_file, CT_mpeg), Response(200, R_file, CT_xwav),
     Response(200, R_hls, CT_ogg), Response(403, NoneVal, <<>>)}

\* answers of the stream endpoint: a status and the 'url' field
StreamAnswers ==
    {<<200, M_ok>>, <<200, M_bad>>, <<200, <<>>>>, <<200, NoneVal>>,
     <<403, NoneVal>>, <<500, NoneVal>>}

(***************************************************************************)
(* get_track_download.                                                     *)
(***************************************************************************)
DlInit ==
    [is_hls |-> FALSE, m3u8_url_resolved |-> NoneVal, resolved_stream_url |-> NoneVal,
     output_location |-> "", temp_location |-> "", outcome |-> "",
     wrote |-> FALSE, download_type |-> "", temp_file_path |-> "", file_url |-> NoneVal,
     raised |-> <<"", "">>]

\* raise self.exception(msg)
ModuleError(msg) == <<"module_error", msg>>

\* an exception of the host's download_to_temp
HostError(msg) == <<"host_error", msg>>

\* determined_is_hls
DeterminedIsHls(track_url, is_hls_kw) ==
    \/ is_hls_kw
    \/ /\ IsStr(track_url)
       /\ LET lower == Lower(track_url)
          IN  \/ Contains(lower, S_slash_hls)
              \/ Contains(lower, S_dot_m3u8)
              \/ Contains(lower, S_ctr_encrypted_hls)

ErrStreamUrlMissing ==
    "Stream URL is missing. This track may not be available for streaming or download in your region."

ErrInvalidStreamUrl == "Invalid stream URL. This track may not be available."

\* variant: no test for a missing file_url
StreamLinkNoMissingCheck(file_url, answer) ==
    IF ~Contains(file_url, S_api_base)
    THEN [ok |-> FALSE, url |-> NoneVal, msg |-> ModuleError(ErrInvalidStreamUrl)]
    ELSE IF answer[1] \notin OkStatuses
         THEN [ok |-> FALSE, url |-> NoneVal, msg |-> ModuleError(GetError(answer[1]))]
    ELSE [ok |-> TRUE, url |-> answer[2], msg |-> <<"", "">>]

\* SoundCloudWebAPI.get_track_stream_link; answer is <<status, 'url' field>>
StreamLink(file_url, answer) ==
    IF ~Truthy(file_url) THEN [ok |-> FALSE, url |-> NoneVal, msg |-> ModuleError(ErrStreamUrlMissing)]
    ELSE IF ~Contains(file_url, S_api_base)
         THEN [ok |-> FALSE, url |-> NoneVal, msg |-> ModuleError(ErrInvalidStreamUrl)]
    ELSE IF answer[1] \notin OkStatuses
         THEN [ok |-> FALSE, url |-> NoneVal, msg |-> ModuleError(GetError(answer[1]))]
    ELSE [ok |-> TRUE, url |-> answer[2], msg |-> <<"", "">>]

\* variant: any non-empty answer accepted as playlist URL
ValidM3u8AnyString(url) == Truthy(url)

\* the test the resolved playlist URL must pass
ValidM3u8(url) == Truthy(url) /\ IsStr(url) /\ StartsWith(url, S_http)

\* variant: no removal of the output file after a non-zero return code
HlsCleanupNotOnReturnCode(outcome, output_location, fs) ==
    IF outcome = "rc_nonzero" THEN fs ELSE fs \ {output_location}

\* the files left once the except clauses of the HLS try block have run
HlsCleanup(outcome, output_location, fs) == fs \ {output_location}

\* the message of the module error that leaves the HLS try block
HlsFailure(outcome) ==
    IF outcome = "ffmpeg_error" THEN ModuleError("HLS_FFMPEG_LIB_ERROR")
    ELSE ModuleError("HLS_UNEXPECTED_ERROR_IN_TRY_BLOCK")

\* variant: the downloaded file kept after a successful remux
RemuxFilesKeepTemp(ok, output_location, temp_location, fs) ==
    IF ok THEN fs \cup {output_location} ELSE fs \ {output_location}

\* the files left once the try block of the AAC remux and its except clause
\* have run; ok: ffmpeg's run() returned without raising
RemuxFiles(ok, output_location, temp_location, fs) ==
    IF ok THEN (fs \cup {output_location}) \ {temp_location}
    ELSE fs \ {output_location}

(***************************************************************************)
(* Inputs of the quality extractor: presets put together from a prefix, up *)
(* to MaxPresetParts middle parts and a tail, joined by '_'.               *)
(***************************************************************************)
ProbePrefixes ==
    {<<"a","a","c">>, <<"A","A","C">>, <<"o","p","u","s">>, <<"m","p","3">>,
     <<"x","y","z">>}

ProbeParts == {<<"0">>, <<"1">>, <<"5">>, <<"1","0">>, <<"h","q">>, S_abr_sq}

ProbeTails == {<<>>, <<"0">>, <<"0","k">>, <<"1","2","8","k">>}

RECURSIVE JoinParts(_)
JoinParts(parts) ==
    IF parts = <<>> THEN <<>>
    ELSE <<"_">> \o Head(parts) \o JoinParts(Tail(parts))

ProbePresets ==
    {prefix \o JoinParts(parts) \o (IF tail = <<>> THEN <<>> ELSE <<"_">> \o tail) :
        prefix \in ProbePrefixes,
        parts \in SeqsUpTo(ProbeParts, MaxPresetParts),
        tail \in ProbeTails}

ProbeTranscodings ==
    {Transcoding(url, protocol, preset) :
        url \in {U_prog, U_hls, U_ctr},
        protocol \in {"hls", "progressive"},
        preset \in ProbePresets}

ProbeNone ==
    [transcoding |-> Transcoding(NoneVal, "", NoneVal), scored |-> FALSE,
     known |-> FALSE, score |-> 0]

(***************************************************************************)
(* SoundCloudWebAPI._get_collection_paginated.                             *)
(***************************************************************************)
MaxPagesArg == 2

DefaultMaxPages == 50

S_http_scheme == <<"h","t","t","p",":","/","/">>

S_https_scheme == <<"h","t","t","p","s",":","/","/">>

\* url.startswith('http://') or url.startswith('https://')
IsAbsolute(url) == StartsWith(url, S_http_scheme) \/ StartsWith(url, S_https_scheme)

\* entries of a collection: an object with an id, an object without, and a
\* value that is no object
Item(id) == [is_dict |-> TRUE, has_id |-> TRUE, id |-> id]

ItemNoId == [is_dict |-> TRUE, has_id |-> FALSE, id |-> 0]

ItemJunk == [is_dict |-> FALSE, has_id |-> FALSE, id |-> 0]

\* the URL of the first request and the cursors the API hands out
C_start == <<"u","s","e","r","s","/","1","/","a","l","b","u","m","s">>

C_a == S_api_base \o C_start \o <<"?","o","=","1">>

C_b == S_api_base \o C_start \o <<"?","o","=","2">>

Cursors == {C_start, C_a, C_b}

\* an answer to one request: the status, the type of the JSON body ("list",
\* "dict" or "other"), and for a dict its 'collection' and 'next_href' keys
PageResponse(status, kind, has_collection, collection, next_href) ==
    [status |-> status, kind |-> kind, has_collection |-> has_collection,
     collection |-> collection, next_href |-> next_href]

PageResponses ==
    {PageResponse(500, "other", FALSE, <<>>, NoneVal),
     PageResponse(200, "list", TRUE, <<Item(1)>>, NoneVal),
     PageResponse(200, "dict", TRUE, <<Item(1), ItemNoId>>, C_a),
     PageResponse(200, "dict", TRUE, <<Item(2)>>, C_b),
     PageResponse(200, "dict", TRUE, <<ItemJunk, Item(3)>>, NoneVal),
     PageResponse(200, "dict", TRUE, <<>>, <<>>),
     PageResponse(200, "dict", FALSE, <<>>, C_a),
     PageResponse(200, "other", FALSE, <<>>, NoneVal)}

\* the API as the answers it gives to each URL
Servers == [Cursors -> PageResponses]

\* collection
PageCollection(resp) ==
    IF resp.kind = "list" THEN resp.collection
    ELSE IF resp.kind = "dict"
         THEN (IF resp.has_collection THEN resp.collection ELSE <<>>)
    ELSE <<>>

\* next_href
PageNextHref(resp) == IF resp.kind = "dict" THEN resp.next_href ELSE NoneVal

\* variant: every entry of the collection kept
CollectedAll(collection) == collection

\* the entries of a collection appended to all_items
RECURSIVE Collected(_)
Collected(collection) ==
    IF collection = <<>> THEN <<>>
    ELSE (IF Head(collection).is_dict /\ Head(collection).has_id
          THEN <<Head(collection)>> ELSE <<>>)
         \o Collected(Tail(collection))

\* variant: a loop that goes on as long as there is a cursor
MayRequestUnbounded(requests, max_pages) == TRUE

\* for _ in range(max_pages): another iteration is left
MayRequest(requests, max_pages) == requests < max_pages

PageNone ==
    [state |-> "off", server |-> <<>>, max_pages |-> 0, page_url |-> NoneVal,
     page_params |-> NoneVal, requests |-> 0, fetched |-> <<>>, all_items |-> <<>>,
     raised |-> ""]

(***************************************************************************)
(* SoundCloudWebAPI.get_tracks_from_tracklist.                             *)
(***************************************************************************)
MaxTracklist == 101

ChunkSize == 50

\* an entry of the track list: its id and whether it has 'streamable'
Entry2(id, has_streamable) == [id |-> id, has_streamable |-> has_streamable]

\* the lengths of the track lists: around the chunk size and its multiples
TracklistLengths ==
    {n \in 0..MaxTracklist :
        \/ n <= 2
        \/ n \in {ChunkSize - 1, ChunkSize, ChunkSize + 1, 2 * ChunkSize}
        \/ n = MaxTracklist}

\* which entries lack 'streamable'
LackRules == {"all", "none", "odd", "last"}

\* a track list of n entries; dup: every id is listed twice in a row
Tracklist(n, rule, dup) ==
    [k \in 1..n |->
        Entry2(IF dup THEN ((k - 1) \div 2) + 1 ELSE k,
               ~ CASE rule = "all" -> TRUE
                   [] rule = "none" -> FALSE
                   [] rule = "odd" -> k % 2 = 1
                   [] OTHER -> k = n)]

Tracklists ==
    {Tracklist(n, rule, dup) : n \in TracklistLengths, rule \in LackRules, dup \in BOOLEAN}

\* tracks_to_get
TracksToGet(td) ==
    LET lacking == SelectSeq(td, LAMBDA i : ~i.has_streamable)
    IN  [k \in 1..Len(lacking) |-> lacking[k].id]

\* variant: one request for all the ids
ChunkedWhole(ids) == IF ids = <<>> THEN <<>> ELSE <<ids>>

\* tracks_to_get_chunked
Chunked(ids) ==
    [c \in 1..((Len(ids) + ChunkSize - 1) \div ChunkSize) |->
        SubSeq(ids, (c - 1) * ChunkSize + 1,
               IF c * ChunkSize < Len(ids) THEN c * ChunkSize ELSE Len(ids))]

\* the keys of a dict comprehension over td, in insertion order
DictKeys(td) ==
    LET at == [k \in 1..Len(td) |-> [pos |-> k, id |-> td[k].id]]
        first == SelectSeq(at, LAMBDA e : \A m \in 1..(e.pos - 1) : td[m].id # e.id)
    IN  [k \in 1..Len(first) |-> first[k].id]

\* the value the dict comprehension leaves under a key: that of the last
\* entry with this id, taken from the input or from new_track_data
DictSource(td, id) ==
    LET last == CHOOSE k \in 1..Len(td) :
                    /\ td[k].id = id
                    /\ \A m \in (k + 1)..Len(td) : td[m].id # id
    IN  IF td[last].has_streamable THEN "input" ELSE "api"

\* the answers of the tracks endpoint to one batch: every requested track,
\* all but the first requested track, or an error status
BatchAnswers == {"all", "first_missing", "error"}

BatchNone ==
    [state |-> "off", track_data |-> <<>>, tracks_to_get |-> <<>>,
     tracks_to_get_chunked |-> <<>>, sent |-> <<>>, new_track_data |-> {},
     result |-> <<>>, raised |-> ""]

(***************************************************************************)
(* The operations of ModuleInterface as the requests they send through     *)
(* SoundCloudWebAPI._get, each request with the try block it is sent from  *)
(* (0: none, the exception of _get propagates to the caller).              *)
(***************************************************************************)
MaxCalls == 2

ApiStatuses == {200, 403, 500}

Site(endpoint, try) == [endpoint |-> endpoint, try |-> try]

\* n requests in a row from the same place
Repeated(site, n) == [k \in 1..n |-> site]

\* custom_url_parse: websession.resolve_url(link)
PlanCustomUrlParse == <<Site("resolve", 0)>>

\* search with a supported query type: websession.search(qt, query, limit)
PlanSearch == <<Site("search", 0)>>

\* get_track_info: the track when it is not in data, and the download
\* endpoint of a direct-download asset
PlanTrackInfo(in_data, direct) ==
    (IF in_data THEN <<>> ELSE <<Site("tracks/id", 0)>>)
    \o (IF direct THEN <<Site("tracks/id/download", 0)>> ELSE <<>>)

\* get_album_info and get_playlist_info: get_tracks_from_tracklist with n
\* chunks of ids
PlanTracklist(n) == Repeated(Site("tracks", 0), n)

\* get_artist_info: get_user_albums_tracks, with the resolve request of a
\* non-numeric user id and the pages of the albums and tracks collections,
\* each in a try block of its own
PlanArtistInfo(numeric, album_pages, track_pages) ==
    (IF numeric THEN <<>> ELSE <<Site("resolve", 1)>>)
    \o Repeated(Site("users/uid/albums", 2), album_pages)
    \o Repeated(Site("users/uid/tracks", 3), track_pages)

\* the operations with the requests they would send if none failed
Calls ==
    {[name |-> "custom_url_parse", plan |-> PlanCustomUrlParse],
     [name |-> "search", plan |-> PlanSearch]}
    \cup {[name |-> "get_track_info", plan |-> PlanTrackInfo(in_data, direct)] :
            in_data \in BOOLEAN, direct \in BOOLEAN}
    \cup {[name |-> name, plan |-> PlanTracklist(n)] :
            name \in {"get_album_info", "get_playlist_info"}, n \in 0..MaxCalls}
    \cup {[name |-> "get_artist_info", plan |-> PlanArtistInfo(numeric, a, t)] :
            numeric \in BOOLEAN, a \in 1..MaxCalls, t \in 1..MaxCalls}

\* the request after the k-th when the k-th raised inside its try block:
\* the rest of the try block is skipped
AfterExcept(plan, k) ==
    IF \E m \in (k + 1)..Len(plan) : plan[m].try # plan[k].try
    THEN CHOOSE m \in (k + 1)..Len(plan) :
            /\ plan[m].try # plan[k].try
            /\ \A c \in (k + 1)..(m - 1) : plan[c].try = plan[k].try
    ELSE Len(plan) + 1

OpNone ==
    [state |-> "off", name |-> "", plan |-> <<>>, next |-> 1, log |-> <<>>,
     raised |-> ""]

(***************************************************************************)
(* Actions.                                                                *)
(***************************************************************************)
Init ==
    /\ pc = "idle"
    /\ track_data = NoTrack
    /\ response = NoResponse
    /\ info = InfoNone
    /\ available = <<>>
    /\ dl = DlInit
    /\ files = {}
    /\ ffmpeg_runs = 0
    /\ probe = ProbeNone
    /\ page = PageNone
    /\ batch = BatchNone
    /\ op = OpNone

IsDirect(td) == td.downloadable /\ td.has_downloads_left

\* get_track_info(track_id, ..., data) with data[track_id] = td
GetTrackInfo ==
    /\ pc = "idle"
    /\ \E td \in Tracks :
         \E resp \in (IF IsDirect(td) THEN Responses ELSE {NoResponse}) :
            /\ track_data' = td
            /\ response' = resp
            /\ info' = TrackInfo(td, resp)
            /\ available' = IF ~IsDirect(td) /\ td.streamable
                            THEN SortedStreams(AvailableStreams(td.transcodings))
                            ELSE <<>>
            /\ pc' = IF info'.status = "raised" THEN "info_raised" ELSE "info"
    /\ UNCHANGED <<dl, files, ffmpeg_runs, probe, page, batch, op>>

\* get_track_info when track_id is not in data and the tracks/<id> request fails
GetTrackInfoFetchFails ==
    /\ pc = "idle"
    /\ \E status \in {403, 500} :
         /\ info' = InfoRaised(GetError(status))
         /\ pc' = "info_raised"
    /\ UNCHANGED <<track_data, response, available, dl, files, ffmpeg_runs, probe, page, batch, op>>

\* get_track_download(**download_extra_kwargs) up to the branch on is_hls
BeginDownload ==
    /\ pc = "info"
    /\ LET h == DeterminedIsHls(info.track_url, info.is_hls)
       IN  IF h /\ ~Truthy(info.track_url)
           THEN /\ pc' = "dl_raised"
                /\ dl' = [dl EXCEPT !.is_hls = h,
                                    !.raised = ModuleError("HLS stream URL not found in get_track_download (is_hls path)")]
           ELSE /\ pc' = IF h THEN "hls_resolve" ELSE "resolve"
                /\ dl' = [dl EXCEPT !.is_hls = h]
    /\ UNCHANGED <<track_data, response, info, available, files, ffmpeg_runs, probe, page, batch, op>>

\* the first try block of the HLS path, and output_location
HlsResolve ==
    /\ pc = "hls_resolve"
    /\ \E answer \in StreamAnswers :
         LET r == StreamLink(info.track_url, answer)
         IN  IF r.ok /\ ValidM3u8(r.url)
             THEN /\ pc' = "hls_ffmpeg"
                  /\ dl' = [dl EXCEPT !.m3u8_url_resolved = r.url,
                                      !.output_location = "output"]
             ELSE /\ pc' = "dl_raised"
                  /\ dl' = [dl EXCEPT !.raised = ModuleError("HLS_M3U8_RESOLUTION_ERROR")]
    /\ UNCHANGED <<track_data, response, info, available, files, ffmpeg_runs, probe, page, batch, op>>

\* the ffmpeg process of the HLS path runs to its end (the ffmpeg package is
\* taken to be importable); wrote: the process left an output file behind
HlsFfmpeg ==
    /\ pc = "hls_ffmpeg"
    /\ \E outcome \in {"rc_zero", "rc_nonzero", "ffmpeg_error", "exception"} :
         \E wrote \in BOOLEAN :
            /\ outcome = "rc_zero" => wrote
            /\ dl' = [dl EXCEPT !.outcome = outcome, !.wrote = wrote]
            /\ files' = IF wrote THEN files \cup {dl.output_location} ELSE files
            /\ pc' = IF outcome = "rc_zero" THEN "hls_return" ELSE "hls_except"
    /\ ffmpeg_runs' = ffmpeg_runs + 1
    /\ UNCHANGED <<track_data, response, info, available, probe, page, batch, op>>

\* the except clauses of the HLS try block
HlsExcept ==
    /\ pc = "hls_except"
    /\ files' = HlsCleanup(dl.outcome, dl.output_location, files)
    /\ dl' = [dl EXCEPT !.raised = HlsFailure(dl.outcome)]
    /\ pc' = "dl_raised"
    /\ UNCHANGED <<track_data, response, info, available, ffmpeg_runs, probe, page, batch, op>>

\* the return of the HLS path
HlsReturn ==
    /\ pc = "hls_return"
    /\ dl' = [dl EXCEPT !.download_type = "TEMP_FILE_PATH",
                        !.temp_file_path = dl.output_location]
    /\ pc' = "dl_done"
    /\ UNCHANGED <<track_data, response, info, available, files, ffmpeg_runs, probe, page, batch, op>>

\* resolved_stream_url, and the return of a codec other than AAC
Resolve ==
    /\ pc = "resolve"
    /\ \E answer \in StreamAnswers :
         LET r == IF ~Truthy(info.download_url)
                  THEN StreamLink(info.track_url, answer)
                  ELSE [ok |-> TRUE, url |-> info.download_url, msg |-> <<"", "">>]
         IN  IF ~r.ok
             THEN /\ pc' = "dl_raised"
                  /\ dl' = [dl EXCEPT !.raised = r.msg]
             ELSE IF info.codec = "AAC"
             THEN /\ pc' = "aac_download"
                  /\ dl' = [dl EXCEPT !.resolved_stream_url = r.url]
             ELSE /\ pc' = "dl_done"
                  /\ dl' = [dl EXCEPT !.resolved_stream_url = r.url,
                                      !.download_type = "URL",
                                      !.file_url = r.url]
    /\ UNCHANGED <<track_data, response, info, available, files, ffmpeg_runs, probe, page, batch, op>>

\* download_to_temp of the AAC path, and output_location
AacDownload ==
    /\ pc = "aac_download"
    /\ \E ok \in BOOLEAN :
         IF ok
         THEN /\ files' = files \cup {"temp"}
              /\ dl' = [dl EXCEPT !.temp_location = "temp", !.output_location = "output"]
              /\ pc' = "aac_remux"
         ELSE /\ files' = files
              /\ dl' = [dl EXCEPT !.raised = HostError("download_to_temp")]
              /\ pc' = "dl_raised"
    /\ UNCHANGED <<track_data, response, info, available, ffmpeg_runs, probe, page, batch, op>>

\* the remux of the AAC path with its fallback, and the return
AacRemux ==
    /\ pc = "aac_remux"
    /\ \E ok \in BOOLEAN :
         IF ok
         THEN /\ files' = RemuxFiles(TRUE, dl.output_location, dl.temp_location, files)
              /\ dl' = [dl EXCEPT !.outcome = "rc_zero",
                                  !.download_type = "TEMP_FILE_PATH",
                                  !.temp_file_path = dl.output_location]
         ELSE /\ files' = RemuxFiles(FALSE, dl.output_location, dl.temp_location, files)
              /\ dl' = [dl EXCEPT !.outcome = "exception",
                                  !.output_location = dl.temp_location,
                                  !.download_type = "TEMP_FILE_PATH",
                                  !.temp_file_path = dl.temp_location]
    /\ ffmpeg_runs' = ffmpeg_runs + 1
    /\ pc' = "dl_done"
    /\ UNCHANGED <<track_data, response, info, available, probe, page, batch, op>>

Next ==
    \/ GetTrackInfo
    \/ GetTrackInfoFetchFails
    \/ BeginDownload
    \/ HlsResolve
    \/ HlsFfmpeg
    \/ HlsExcept
    \/ HlsReturn
    \/ Resolve
    \/ AacDownload
    \/ AacRemux

Spec == Init /\ [][Next]_vars

(***************************************************************************)
(* Properties of stream selection.                                         *)
(***************************************************************************)
\* get_track_info has just returned and took the transcoding path
TranscodingPath ==
    /\ pc = "info"
    /\ ~IsDirect(track_data)
    /\ track_data.streamable

\* the URL names a DRM-encrypted HLS stream
UrlEncrypted(url) ==
    /\ IsStr(url)
    /\ \/ Contains(Lower(url), S_ctr_encrypted_hls)
       \/ Contains(Lower(url), S_cbc_encrypted_hls)

NoStream ==
    [url |-> NoneVal, codec |-> "NONE", is_hls |-> FALSE, is_encrypted |-> FALSE,
     quality |-> -1, preference |-> -1, preset |-> NoneVal]

\* a listed transcoding as the loop sees it: whether its codec is known,
\* whether it is retained, and its scored stream
Entry(i) ==
    IF IsCodecName(StreamCodecName(i.preset))
    THEN LET stream == ScoredStream(i)
         IN  [known |-> TRUE, retained |-> Retained(stream), stream |-> stream]
    ELSE [known |-> FALSE, retained |-> FALSE, stream |-> NoStream]

RECURSIVE Entries(_)
Entries(transcodings) ==
    IF transcodings = <<>> THEN <<>>
    ELSE <<Entry(Head(transcodings))>> \o Entries(Tail(transcodings))

\* a candidate with a URL, a known codec and a non-negative quality score
Playable(e) == e.known /\ Truthy(e.stream.url) /\ e.stream.quality >= 0

\* C1: on the transcoding path, when the list holds a candidate with a URL,
\* a known codec and a non-negative quality score, the selected stream is
\* not a DRM-encrypted HLS candidate, whatever bitrate the encrypted
\* candidate's preset advertises.
C1_EncryptedNeverPreferred ==
    TranscodingPath =>
        LET es == Entries(track_data.transcodings)
        IN  (\E k \in 1..Len(es) : Playable(es[k]))
                => /\ Truthy(info.track_url)
                   /\ ~UrlEncrypted(info.track_url)

\* C1 witness: an encrypted candidate advertising 256k is listed ahead of a
\* playable 160k candidate, and the 160k candidate is the selected stream.
C1_Witness ==
    /\ TranscodingPath
    /\ Len(track_data.transcodings) = 2
    /\ track_data.transcodings[1] = Transcoding(U_ctr, "hls", P_aac_256k)
    /\ track_data.transcodings[2] = Transcoding(U_prog, "progressive", P_aac_160k)
    /\ info.track_url = U_prog

\* C2: for a streamable track whose only URL-bearing candidates are
\* encrypted HLS candidates (of a known codec), the encrypted candidate is
\* selected (track_url is its URL, is_hls is true) and the error is the DRM
\* diagnostic, not 'none were usable'.
C2_EncryptedRetained ==
    TranscodingPath =>
        LET tl == track_data.transcodings
            es == Entries(tl)
        IN  (/\ \E k \in 1..Len(tl) : Truthy(tl[k].url)
             /\ \A k \in 1..Len(tl) :
                  Truthy(tl[k].url) => es[k].known /\ UrlEncrypted(tl[k].url))
                => /\ \E k \in 1..Len(tl) : Truthy(tl[k].url) /\ info.track_url = tl[k].url
                   /\ info.is_hls
                   /\ info.error = ErrDrm
                   /\ info.error # ErrNoneUsable

\* the permutations of a sequence
Perms(q) ==
    {[k \in 1..Len(q) |-> q[f[k]]] :
        f \in {g \in [1..Len(q) -> 1..Len(q)] :
                \A a, b \in 1..Len(q) : a # b => g[a] # g[b]}}

\* the stream the selection of get_track_info picks from a transcoding list
Selected(transcodings) ==
    LET sorted == SortedStreams(AvailableStreams(transcodings))
    IN  IF sorted = <<>> THEN NoStream ELSE sorted[1]

\* the selection the last get_track_info made, as the result and the sorted
\* list show it
SelectedNow ==
    IF available = <<>> THEN NoStream
    ELSE [available[1] EXCEPT !.url = info.track_url, !.codec = info.codec,
                              !.is_hls = info.is_hls]

\* C3 as stated: every permutation of the transcoding list selects the same
\* candidate (URL, codec, HLS flag and preset).
C3_OrderIndependent ==
    TranscodingPath =>
        \A q \in Perms(track_data.transcodings) : Selected(q) = SelectedNow

\* the positions of the retained candidates that attain the
\* lexicographically greatest (quality, preference) pair
BestPositions(es) ==
    {k \in 1..Len(es) :
        /\ es[k].retained
        /\ \A m \in 1..Len(es) :
             es[m].retained =>
                \/ es[k].stream.quality > es[m].stream.quality
                \/ /\ es[k].stream.quality = es[m].stream.quality
                   /\ es[k].stream.preference >= es[m].stream.preference}

\* C3 as amended: every permutation selects a candidate of the same quality
\* score and preference score, and the same candidate (URL, codec, HLS flag,
\* preset) whenever the retained candidates sharing the greatest (quality,
\* preference) pair do not differ in URL, codec, HLS flag or preset.
C3_OrderIndependentUpToTies ==
    TranscodingPath =>
        LET es == Entries(track_data.transcodings)
            best == BestPositions(es)
            now == SelectedNow
        IN  \A q \in Perms(track_data.transcodings) :
                LET sel == Selected(q)
                IN  /\ sel.quality = now.quality
                    /\ sel.preference = now.preference
                    /\ (\A k, m \in best : es[k].stream = es[m].stream) => sel = now

\* C3 witness: a list of two retained candidates of quality 0, the one of
\* the higher preference last; it is selected from the list and from the
\* list reversed.
C3_Witness ==
    /\ TranscodingPath
    /\ Len(track_data.transcodings) = 2
    /\ track_data.transcodings[1] = Transcoding(U_m3u8, "progressive", P_mp3_0k)
    /\ track_data.transcodings[2] = Transcoding(U_prog, "progressive", P_opus_0_0)
    /\ info.track_url = U_prog
    /\ Selected(<<track_data.transcodings[2], track_data.transcodings[1]>>).url = U_prog

\* the preference table as the claim gives it
PreferenceTable(codec, is_hls) ==
    IF codec = "AAC" /\ is_hls THEN 5
    ELSE IF codec = "OPUS" /\ is_hls THEN 4
    ELSE IF codec = "OPUS" /\ ~is_hls THEN 3
    ELSE IF codec = "AAC" /\ ~is_hls THEN 2
    ELSE IF codec = "MP3" /\ ~is_hls THEN 1
    ELSE 0

\* C4: the retained candidates carry the preference scores of the table, and
\* of two retained candidates with equal quality score and different
\* preference scores the one with the lower preference is not the selected
\* stream.
C4_PreferenceBreaksTies ==
    TranscodingPath =>
        LET es == Entries(track_data.transcodings)
        IN  /\ \A k \in 1..Len(available) :
                 available[k].preference =
                    PreferenceTable(available[k].codec, available[k].is_hls)
            /\ \A k, m \in 1..Len(es) :
                 (/\ es[k].retained /\ es[m].retained
                  /\ es[k].stream.quality = es[m].stream.quality
                  /\ PreferenceTable(es[k].stream.codec, es[k].stream.is_hls)
                        < PreferenceTable(es[m].stream.codec, es[m].stream.is_hls))
                    => /\ available[1] # es[k].stream
                       /\ \/ info.track_url # es[k].stream.url
                          \/ info.codec # es[k].stream.codec
                          \/ info.is_hls # es[k].stream.is_hls

\* C4 witness: Progressive-AAC at 160 kbps is listed first, HLS-AAC at 160
\* kbps second, and HLS-AAC is the selected stream.
C4_Witness ==
    /\ TranscodingPath
    /\ Len(track_data.transcodings) = 2
    /\ track_data.transcodings[1] = Transcoding(U_prog, "progressive", P_aac_160k)
    /\ track_data.transcodings[2] = Transcoding(U_hls, "hls", P_aac_160k)
    /\ available[1].quality = available[2].quality
    /\ info.track_url = U_hls /\ info.codec = "AAC" /\ info.is_hls

\* C5: when a candidate is retained, the selected stream is the earliest
\* candidate in input order among those whose (quality score, preference
\* score) pair is lexicographically greatest.
C5_EarliestOfBest ==
    TranscodingPath =>
        LET es == Entries(track_data.transcodings)
            best == BestPositions(es)
        IN  (\E k \in 1..Len(es) : es[k].retained)
                => /\ best # {}
                   /\ LET first == CHOOSE k \in best : \A m \in best : k <= m
                      IN  /\ available[1] = es[first].stream
                          /\ info.track_url = track_data.transcodings[first].url
                          /\ info.codec = es[first].stream.codec
                          /\ info.is_hls = es[first].stream.is_hls

\* C5 witness: two HLS-AAC candidates of 160 kbps with different URLs, and
\* the one listed first is selected.
C5_Witness ==
    /\ TranscodingPath
    /\ Len(track_data.transcodings) = 2
    /\ track_data.transcodings[1] = Transcoding(U_hls2, "hls", P_aac_160k)
    /\ track_data.transcodings[2] = Transcoding(U_hls, "hls", P_aac_160k)
    /\ info.track_url = U_hls2

(***************************************************************************)
(* Properties of the result of get_track_info.                             *)
(***************************************************************************)
\* the transcoding lists a direct-download result is compared across
AlternativeLists == SeqsUpTo(Transcodings, 1)

\* C6: with downloadable and has_downloads_left set, the result (codec,
\* track_url, download_url, is_hls, error, or the error raised) is the one
\* the download endpoint and the Content-Type header determine: it is the
\* same for every content of media.transcodings and every value of
\* streamable.
C6_DirectIgnoresTranscodings ==
    (pc \in {"info", "info_raised"} /\ IsDirect(track_data))
        => /\ \A tl \in AlternativeLists, st \in BOOLEAN :
                info = TrackInfo([track_data EXCEPT !.transcodings = tl,
                                                    !.streamable = st], response)
           /\ info.status = "returned"
                => /\ info.download_url = response.redirectUri
                   /\ info.track_url = response.redirectUri
                   /\ ~info.is_hls
           /\ available = <<>>

\* C6 witness: a downloadable, streamable track whose list holds a playable
\* HLS candidate, answered with audio/mpeg: codec MP3 from the direct asset.
C6_Witness ==
    /\ pc = "info"
    /\ IsDirect(track_data)
    /\ track_data.streamable
    /\ track_data.transcodings = <<Transcoding(U_hls, "hls", P_aac_160k)>>
    /\ response = Response(200, R_file, CT_mpeg)
    /\ info.codec = "MP3"
    /\ info.download_url = R_file
    /\ info.error = NoError

\* C7: without a usable direct download, 'not available for download or
\* streaming' is the error iff the track is not streamable, 'no transcodings
\* available' iff it is streamable with an empty list, 'none were usable'
\* iff it is streamable with a non-empty list of which no candidate survives
\* the filter; the three differ, and in each case no stream URL is selected.
C7_DistinctDiagnostics ==
    (pc = "info" /\ ~IsDirect(track_data))
        => /\ info.error = ErrNotAvailable <=> ~track_data.streamable
           /\ info.error = ErrNoTranscodings
                <=> track_data.streamable /\ track_data.transcodings = <<>>
           /\ info.error = ErrNoneUsable
                <=> /\ track_data.streamable
                    /\ track_data.transcodings # <<>>
                    /\ LET es == Entries(track_data.transcodings)
                       IN  \A k \in 1..Len(es) : ~Playable(es[k])
           /\ ErrNotAvailable # ErrNoTranscodings
           /\ ErrNotAvailable # ErrNoneUsable
           /\ ErrNoTranscodings # ErrNoneUsable
           /\ info.error \in {ErrNotAvailable, ErrNoTranscodings, ErrNoneUsable}
                => /\ info.track_url = NoneVal
                   /\ info.download_url = NoneVal
                   /\ ~info.is_hls

\* C7 witness: a streamable track whose two candidates are an unknown codec
\* and one without URL: 'none were usable', no URL selected.
C7_Witness ==
    /\ pc = "info"
    /\ ~IsDirect(track_data)
    /\ track_data.streamable
    /\ track_data.transcodings =
          <<Transcoding(U_prog2, "progressive", P_xyz_320k),
            Transcoding(<<>>, "hls", P_aac_256k)>>
    /\ info.error = ErrNoneUsable
    /\ info.track_url = NoneVal

\* C8: on the transcoding path with a selected stream, the error is None
\* exactly when the selected stream is unencrypted with quality score > 0,
\* the 'zero or negative quality' diagnostic when it is unencrypted with
\* quality score <= 0, the DRM diagnostic when it is encrypted; in all three
\* cases the result carries the selected stream's URL, codec and HLS flag.
C8_DiagnosticOfSelected ==
    (TranscodingPath /\ available # <<>>)
        => /\ info.error = NoError
                <=> ~UrlEncrypted(available[1].url) /\ available[1].quality > 0
           /\ (~UrlEncrypted(available[1].url) /\ available[1].quality <= 0)
                => info.error = ErrZeroQuality(available[1].preset)
           /\ UrlEncrypted(available[1].url) => info.error = ErrDrm
           /\ info.track_url = available[1].url
           /\ info.codec = available[1].codec
           /\ info.is_hls = available[1].is_hls
           /\ LET es == Entries(track_data.transcodings)
              IN  \E k \in 1..Len(es) : es[k].retained /\ es[k].stream = available[1]

\* C8 witness: the only retained candidate is opus_0_0 of quality 0: it is
\* selected, its URL and codec are in the result, with the diagnostic.
C8_Witness ==
    /\ TranscodingPath
    /\ track_data.transcodings = <<Transcoding(U_prog, "progressive", P_opus_0_0)>>
    /\ info.track_url = U_prog
    /\ info.codec = "OPUS"
    /\ ~info.is_hls
    /\ info.error = ErrZeroQuality(P_opus_0_0)

C11_TempFilesScoped ==
    /\ pc = "dl_done" =>
          /\ dl.download_type \in {"TEMP_FILE_PATH", "URL"}
          /\ dl.download_type = "TEMP_FILE_PATH" => files = {dl.temp_file_path}
          /\ dl.download_type = "URL" => files = {}
    /\ pc = "dl_raised" => files = {}

\* C11 witness: on the AAC path the remux failed, the call returned the
\* downloaded file as temp_file_path, and that file is the only one left.
C11_Witness ==
    /\ pc = "dl_done"
    /\ ~dl.is_hls
    /\ dl.outcome = "exception"
    /\ dl.download_type = "TEMP_FILE_PATH"
    /\ dl.temp_file_path = "temp"
    /\ files = {"temp"}

\* get_track_download has been called with the download_extra_kwargs of
\* the result of get_track_info and has passed the branch on is_hls
Dispatched ==
    pc \in {"hls_resolve", "hls_ffmpeg", "hls_except", "hls_return", "resolve",
            "aac_download", "aac_remux", "dl_done", "dl_raised"}

\* C15: get_track_download called with the download_extra_kwargs of a
\* result of get_track_info takes the HLS path if and only if the result's
\* is_hls flag is true; a direct-download asset, whose flag is false, is
\* never routed through the HLS path whatever its redirect URL is.
C15_HlsPathIffFlag ==
    Dispatched =>
        /\ dl.is_hls <=> info.is_hls
        /\ IsDirect(track_data) => ~info.is_hls /\ ~dl.is_hls

\* get_track_info returned a result without a selected stream
NoStreamSelected ==
    /\ pc \in {"info"} \cup {"hls_resolve", "hls_ffmpeg", "hls_except", "hls_return",
                              "resolve", "aac_download", "aac_remux", "dl_done",
                              "dl_raised"}
    /\ info.track_url = NoneVal
    /\ info.download_url = NoneVal
    /\ info.codec = "AAC"
    /\ ~info.is_hls

\* C16: when get_track_info selected no stream, a following
\* get_track_download with those arguments does not take the HLS path, gets
\* no further than the resolution of the stream link, and ends by raising
\* the missing-stream-URL error; no download, no run of the external tool
\* and no temp file happen.
C16_NoStreamRaisesEarly ==
    NoStreamSelected =>
        /\ pc \in {"info", "resolve", "dl_raised"}
        /\ ~dl.is_hls
        /\ ffmpeg_runs = 0
        /\ files = {}
        /\ dl.temp_location = "" /\ dl.output_location = ""
        /\ dl.download_type = ""
        /\ dl.resolved_stream_url = NoneVal
        /\ pc = "dl_raised" => dl.raised = ModuleError(ErrStreamUrlMissing)

\* C16 witness: a track that is neither downloadable nor streamable gave a
\* result without stream, and get_track_download raised the
\* missing-stream-URL error.
C16_Witness ==
    /\ NoStreamSelected
    /\ ~track_data.streamable
    /\ info.error = ErrNotAvailable
    /\ pc = "dl_raised"
    /\ dl.raised = ModuleError(ErrStreamUrlMissing)
    /\ files = {}
    /\ ffmpeg_runs = 0

(***************************************************************************)
(* The quality score of one transcoding, on its own.                       *)
(***************************************************************************)
InitQuality ==
    /\ pc = "probe"
    /\ track_data = NoTrack
    /\ response = NoResponse
    /\ info = InfoNone
    /\ available = <<>>
    /\ dl = DlInit
    /\ files = {}
    /\ ffmpeg_runs = 0
    /\ probe \in {[ProbeNone EXCEPT !.transcoding = i] : i \in ProbeTranscodings}
    /\ page = PageNone
    /\ batch = BatchNone
    /\ op = OpNone

\* one pass of the loop body of get_track_info up to quality_score
ScoreTranscoding ==
    /\ pc = "probe"
    /\ ~probe.scored
    /\ LET i == probe.transcoding
           known == IsCodecName(StreamCodecName(i.preset))
       IN  probe' = [probe EXCEPT !.scored = TRUE,
                                  !.known = known,
                                  !.score = IF known THEN ScoredStream(i).quality ELSE 0]
    /\ UNCHANGED <<pc, track_data, response, info, available, dl, files, ffmpeg_runs,
                   page, batch, op>>

NextQuality == ScoreTranscoding

SpecQuality == InitQuality /\ [][NextQuality]_vars

\* the preset ends in <digits>k behind an underscore that has a prefix
\* before it
FormPrefixDigitsK(p) ==
    \E k \in 2..(Len(p) - 2) :
        /\ p[k] = "_"
        /\ p[Len(p)] = "k"
        /\ \A m \in (k + 1)..(Len(p) - 1) : p[m] \in Digits

\* the integer of a preset of that form
PrefixDigitsKValue(p) ==
    LET k == CHOOSE u \in 2..(Len(p) - 2) :
                /\ p[u] = "_"
                /\ \A m \in (u + 1)..(Len(p) - 1) : p[m] \in Digits
    IN  ToInt(SubSeq(p, k + 1, Len(p) - 1))

\* the preset ends in a digit and 'k'
DigitsKSuffix(p) == Len(p) >= 2 /\ p[Len(p)] = "k" /\ p[Len(p) - 1] \in Digits

\* a digit followed by 'k' somewhere in the preset
DigitsKAnywhere(p) == \E k \in 1..(Len(p) - 1) : p[k] \in Digits /\ p[k + 1] = "k"

\* the second '_'-delimited segment is a number
SecondSegmentNumeric(p) == Len(Split(p, "_")) > 1 /\ IsDigit(Split(p, "_")[2])

\* no rule of the extractor finds a bitrate in the preset
Unparseable(p) ==
    /\ ~DigitsKAnywhere(p)
    /\ ~SecondSegmentNumeric(p)
    /\ ~Contains(p, S_abr_hq)
    /\ ~Contains(p, S_abr_sq)

Scored == pc = "probe" /\ probe.scored /\ probe.known

ProbeCodec == CodecEnumOf(StreamCodecName(probe.transcoding.preset))

FormCodecDigitsK(p) ==
    /\ FormPrefixDigitsK(p)
    /\ Len(Split(p, "_")) = 2
    /\ Split(p, "_")[1] = Lower(Split(p, "_")[1])

InitPaginated ==
    /\ pc = "api"
    /\ track_data = NoTrack
    /\ response = NoResponse
    /\ info = InfoNone
    /\ available = <<>>
    /\ dl = DlInit
    /\ files = {}
    /\ ffmpeg_runs = 0
    /\ probe = ProbeNone
    /\ batch = BatchNone
    /\ op = OpNone
    /\ \E server \in Servers, max_pages \in (0..MaxPagesArg) \cup {DefaultMaxPages} :
         page = [PageNone EXCEPT !.state = "loop", !.server = server,
                                 !.max_pages = max_pages, !.page_url = C_start,
                                 !.page_params = "params"]

\* one iteration of the for loop: the request, the collection appended, and
\* the break when there is no next_href
PageRequest ==
    /\ page.state = "loop"
    /\ MayRequest(page.requests, page.max_pages)
    /\ LET resp == page.server[page.page_url]
           sent == [url |-> page.page_url,
                    params |-> IF IsAbsolute(page.page_url) THEN NoneVal
                               ELSE page.page_params]
           next_href == PageNextHref(resp)
       IN  IF resp.status \notin OkStatuses
           THEN page' = [page EXCEPT !.state = "raised",
                                     !.requests = @ + 1,
                                     !.fetched = Append(@, sent),
                                     !.raised = GetError(resp.status)]
           ELSE page' = [page EXCEPT
                            !.requests = @ + 1,
                            !.fetched = Append(@, sent),
                            !.page_params = IF IsAbsolute(page.page_url) THEN NoneVal ELSE @,
                            !.all_items = @ \o Collected(PageCollection(resp)),
                            !.page_url = IF Truthy(next_href) THEN next_href ELSE NoneVal,
                            !.state = IF Truthy(next_href) THEN "loop" ELSE "returned"]
    /\ UNCHANGED <<pc, track_data, response, info, available, dl, files, ffmpeg_runs,
                   probe, batch, op>>

\* the range of the for loop is used up: return all_items
PageExhausted ==
    /\ page.state = "loop"
    /\ ~MayRequest(page.requests, page.max_pages)
    /\ page' = [page EXCEPT !.state = "returned"]
    /\ UNCHANGED <<pc, track_data, response, info, available, dl, files, ffmpeg_runs,
                   probe, batch, op>>

NextPaginated == PageRequest \/ PageExhausted

SpecPaginated == InitPaginated /\ [][NextPaginated]_vars /\ WF_vars(NextPaginated)

\* the call has returned or raised
PageDone == page.state \in {"returned", "raised"}

\* the answer to the k-th request carried a next_href
HadNext(k) ==
    LET resp == page.server[page.fetched[k].url]
    IN  resp.status \in OkStatuses /\ Truthy(PageNextHref(resp))

\* the entries of the collections of the first k fetched pages, every entry
RECURSIVE FetchedEntries(_)
FetchedEntries(k) ==
    IF k = 0 THEN <<>>
    ELSE FetchedEntries(k - 1) \o PageCollection(page.server[page.fetched[k].url])

\* the objects with an id among the entries of a sequence
WithId(entries) == SelectSeq(entries, LAMBDA e : e.is_dict /\ e.has_id)

\* at most max_pages requests, and none after an answer without next_href
PageBounded ==
    /\ page.requests <= page.max_pages
    /\ Len(page.fetched) = page.requests
    /\ \A k \in 1..(Len(page.fetched) - 1) : HadNext(k)
    /\ (page.state = "loop" /\ page.requests > 0) => HadNext(page.requests)
    /\ page.state = "returned" =>
          \/ page.requests = page.max_pages
          \/ ~HadNext(page.requests)

\* C17 as stated: the call ends for every server, cyclic cursors included;
\* it issues at most max_pages requests, none after the first answer without
\* next_href, and returns the entries of the fetched pages in fetch order.
C17_PaginationTerminates ==
    /\ [](PageBounded
          /\ (page.state = "returned"
                => page.all_items = FetchedEntries(page.requests)))
    /\ <>PageDone

\* C17 as amended: as above, the returned list being the entries of the
\* fetched pages that are objects with an id, in fetch order.
C17_PaginationTerminatesWithIds ==
    /\ [](PageBounded
          /\ (page.state = "returned"
                => page.all_items = WithId(FetchedEntries(page.requests))))
    /\ <>PageDone

\* C17 witness: the cursors form a cycle (the first page points to C_a, C_a
\* to C_b, C_b back to C_a), max_pages is the default, and the call has
\* returned after 50 requests.
C17_Witness ==
    /\ page.state = "returned"
    /\ page.max_pages = DefaultMaxPages
    /\ page.requests = DefaultMaxPages
    /\ PageNextHref(page.server[C_start]) = C_a
    /\ PageNextHref(page.server[C_a]) = C_b
    /\ PageNextHref(page.server[C_b]) = C_a
    /\ Len(page.all_items) >= DefaultMaxPages

(***************************************************************************)
(* SoundCloudWebAPI.get_tracks_from_tracklist(track_data).                 *)
(***************************************************************************)
InitTracklist ==
    /\ pc = "api"
    /\ track_data = NoTrack
    /\ response = NoResponse
    /\ info = InfoNone
    /\ available = <<>>
    /\ dl = DlInit
    /\ files = {}
    /\ ffmpeg_runs = 0
    /\ probe = ProbeNone
    /\ page = PageNone
    /\ op = OpNone
    /\ \E td \in Tracklists :
         batch = [BatchNone EXCEPT
                    !.state = "requests",
                    !.track_data = td,
                    !.tracks_to_get = TracksToGet(td),
                    !.tracks_to_get_chunked = Chunked(TracksToGet(td))]

\* self._get('tracks', {'ids': ','.join(i)}) for the next chunk
BatchRequest ==
    /\ batch.state = "requests"
    /\ Len(batch.sent) < Len(batch.tracks_to_get_chunked)
    /\ \E answer \in BatchAnswers :
         LET i == batch.tracks_to_get_chunked[Len(batch.sent) + 1]
         IN  IF answer = "error"
             THEN batch' = [batch EXCEPT !.state = "raised",
                                         !.sent = Append(@, i),
                                         !.raised = GetError(500)]
             ELSE batch' = [batch EXCEPT
                              !.sent = Append(@, i),
                              !.new_track_data =
                                  @ \cup {i[k] : k \in (IF answer = "all" THEN 1 ELSE 2)..Len(i)}]
    /\ UNCHANGED <<pc, track_data, response, info, available, dl, files, ffmpeg_runs,
                   probe, page, op>>

\* the dict comprehension of the return statement
BatchReturn ==
    /\ batch.state = "requests"
    /\ Len(batch.sent) = Len(batch.tracks_to_get_chunked)
    /\ LET td == batch.track_data
       IN  IF \E k \in 1..Len(td) :
                  ~td[k].has_streamable /\ td[k].id \notin batch.new_track_data
           THEN batch' = [batch EXCEPT !.state = "raised", !.raised = "KeyError"]
           ELSE batch' = [batch EXCEPT
                            !.state = "returned",
                            !.result = LET keys == DictKeys(td)
                                       IN  [k \in 1..Len(keys) |->
                                              [id |-> keys[k],
                                               source |-> DictSource(td, keys[k])]]]
    /\ UNCHANGED <<pc, track_data, response, info, available, dl, files, ffmpeg_runs,
                   probe, page, op>>

NextTracklist == BatchRequest \/ BatchReturn

SpecTracklist == InitTracklist /\ [][NextTracklist]_vars

\* the positions of the input entries that lack 'streamable'
LackingPositions == {k \in 1..Len(batch.track_data) : ~batch.track_data[k].has_streamable}

\* the ids sent so far, batch after batch
RECURSIVE SentIds(_)
SentIds(n) == IF n = 0 THEN <<>> ELSE SentIds(n - 1) \o batch.sent[n]

\* C13: no batch request carries more than 50 ids; once the requests are
\* done, the ids sent are, one for one and in order, those of the input
\* entries lacking 'streamable' (each such entry in exactly one batch, no
\* entry that has the field in any); and a returned mapping has one entry
\* per input track id, in the order of the input.
C13_BatchesOfFifty ==
    /\ \A b \in 1..Len(batch.sent) :
          Len(batch.sent[b]) >= 1 /\ Len(batch.sent[b]) <= 50
    /\ Len(SentIds(Len(batch.sent))) <= Cardinality(LackingPositions)
    /\ batch.state = "returned" =>
          LET td == batch.track_data
              ids == SentIds(Len(batch.sent))
          IN  /\ Len(ids) = Cardinality(LackingPositions)
              /\ \A k \in LackingPositions :
                    ids[Cardinality({m \in LackingPositions : m <= k})] = td[k].id
              /\ {batch.result[k].id : k \in 1..Len(batch.result)}
                    = {td[k].id : k \in 1..Len(td)}
              /\ \A k, m \in 1..Len(batch.result) :
                    k < m => /\ batch.result[k].id # batch.result[m].id
                             /\ \E a \in 1..Len(td) :
                                   /\ td[a].id = batch.result[k].id
                                   /\ \A c \in 1..Len(td) :
                                         td[c].id = batch.result[m].id => a < c

\* C13 witness: 101 entries all lacking 'streamable' were requested in
\* batches of 50, 50 and 1 ids, and the mapping of 101 entries was returned.
C13_Witness ==
    /\ batch.state = "returned"
    /\ Len(batch.track_data) = 2 * ChunkSize + 1
    /\ LackingPositions = 1..(2 * ChunkSize + 1)
    /\ Len(batch.sent) = 3
    /\ Len(batch.sent[1]) = ChunkSize
    /\ Len(batch.sent[2]) = ChunkSize
    /\ Len(batch.sent[3]) = 1
    /\ Len(batch.result) = 2 * ChunkSize + 1

(***************************************************************************)
(* The operations of ModuleInterface and the answers of the API.           *)
(***************************************************************************)
InitApi ==
    /\ pc = "api"
    /\ track_data = NoTrack
    /\ response = NoResponse
    /\ info = InfoNone
    /\ available = <<>>
    /\ dl = DlInit
    /\ files = {}
    /\ ffmpeg_runs = 0
    /\ probe = ProbeNone
    /\ page = PageNone
    /\ batch = BatchNone
    /\ \E call \in Calls :
         op = [OpNone EXCEPT !.state = "running", !.name = call.name,
                             !.plan = call.plan]

\* SoundCloudWebAPI._get for the next request of the operation
ApiCall ==
    /\ op.state = "running"
    /\ op.next <= Len(op.plan)
    /\ \E status \in ApiStatuses :
         LET site == op.plan[op.next]
             log == Append(op.log, [endpoint |-> site.endpoint, status |-> status])
         IN  IF status \in OkStatuses
             THEN op' = [op EXCEPT !.log = log, !.next = @ + 1]
             ELSE IF site.try = 0
             THEN op' = [op EXCEPT !.log = log, !.state = "raised",
                                   !.raised = GetError(status)]
             ELSE op' = [op EXCEPT !.log = log, !.next = AfterExcept(op.plan, op.next)]
    /\ UNCHANGED <<pc, track_data, response, info, available, dl, files, ffmpeg_runs,
                   probe, page, batch>>

\* the operation returns its result
OpReturn ==
    /\ op.state = "running"
    /\ op.next > Len(op.plan)
    /\ op' = [op EXCEPT !.state = "returned"]
    /\ UNCHANGED <<pc, track_data, response, info, available, dl, files, ffmpeg_runs,
                   probe, page, batch>>

NextApi == ApiCall \/ OpReturn

SpecApi == InitApi /\ [][NextApi]_vars

\* C12: an operation that got a failing response (a status other than 200,
\* 201, 202) from the API does not return a normal result: it raises, with
\* the not-available message for a 403.  This is stated for each of
\* custom_url_parse, search, get_track_info, get_album_info,
\* get_playlist_info and get_artist_info.
C12_ApiErrorAborts ==
    /\ op.state = "returned" =>
          \A k \in 1..Len(op.log) : op.log[k].status \in OkStatuses
    /\ op.state = "raised" =>
          /\ op.log # <<>>
          /\ op.log[Len(op.log)].status \notin OkStatuses
          /\ op.log[Len(op.log)].status = 403 => op.raised = ErrRestricted

\* the preset is a quality-level preset opus_<level>_... with a level of 0
\* to 10 and no <digits>k in it
OpusLevelPreset(p) ==
    LET parts == Split(p, "_")
    IN  /\ Len(parts) >= 3
        /\ parts[1] = S_opus
        /\ IsDigit(parts[2])
        /\ ToInt(parts[2]) \in 0..10
        /\ ~DigitsKAnywhere(p)

\* C14: an Opus candidate whose preset is a quality-level preset
\* opus_<level>_... with level in 0..10 and no <digits>k part has the quality
\* score level*12+32.
C14_OpusLevelScale ==
    (/\ Scored
     /\ ProbeCodec = "OPUS"
     /\ ~UrlEncrypted(probe.transcoding.url)
     /\ OpusLevelPreset(probe.transcoding.preset))
        => probe.score = ToInt(Split(probe.transcoding.preset, "_")[2]) * 12 + 32

====
